---- MODULE Spec2Model ----
(***************************************************************************)
(* A model of spec.py, the host-side driver of an Ocean Optics USB2000+    *)
(* spectrometer: main() connects, writes three commands, reads up to       *)
(* eight packets, decodes them to pixels, maps pixels to wavelengths,      *)
(* prints and plots.                                                       *)
(*                                                                         *)
(* Python integers are unbounded; where a value can exceed 32-bit model     *)
(* integers (set_integration_time) it is kept as a little-endian sequence  *)
(* of base-65536 limbs.  Wavelengths (floats in the program) are exact     *)
(* reduced fractions [num, den]; rounding is outside the model.            *)
(***************************************************************************)
EXTENDS Integers, Sequences, FiniteSets

VARIABLES
    pc,          \* position of main()
    device,      \* what usb.core.find returned and how far connect got
    io,          \* device.write / device.read / time.sleep calls, in order
    out,         \* lines printed to standard output, in order
    i,           \* request_spectrum: loop counter of the read loop
    data,        \* request_spectrum: accumulated bytes
    spectrum,    \* main: pixels, then (wavelength, intensity) pairs
    active_pixels,
    err,         \* message of the exception in flight, NoError if none
    plotted,     \* plt.show() was reached
    fn_in,       \* argument of a function applied on its own
    fn_out       \* its result

vars == <<pc, device, io, out, i, data, spectrum, active_pixels, err,
          plotted, fn_in, fn_out>>

(***************************************************************************)
(* Program constants.                                                      *)
(***************************************************************************)
EP_OUT == 1
EP_IN == 130
CMD_INIT == 1
CMD_INTEGRATION == 2
CMD_REQUEST == 9
NUM_PACKETS == 8
PACKET_SIZE == 512
SLEEP_MS == 100
INTEGRATION_MS == 100
US_PER_MS == 1000
ACTIVE_FROM == 20
ACTIVE_TO == 2048
START_WAVELENGTH == 400
END_WAVELENGTH == 700

(***************************************************************************)
(* Bounds of the model.                                                    *)
(***************************************************************************)
MaxShort == 1      \* short (fewer than 512 bytes) reads the device makes per run
MaxBuf == 6        \* longest buffer the decoder is applied to on its own
MaxN == 3          \* longest intensity list interpret_spectrum is applied to on its own
MaxLimbs == 2      \* limbs of time_ms when set_integration_time is applied on its own

NoError == "<none>"
NotFoundMsg == "USB2000+ spectrometer not found"
UnpackMsg == "not enough values to unpack (expected 2, got 0)"
UsbErrors == {"[Errno 13] Access denied", "[Errno 5] Input/Output Error"}
ShortLens == {0, 41, 42}

Min(a, b) == IF a < b THEN a ELSE b

(***************************************************************************)
(* Bit operations on non-negative integers, bit by bit.                    *)
(***************************************************************************)
RECURSIVE BitOr(_, _)
BitOr(a, b) ==
    IF a = 0 THEN b
    ELSE IF b = 0 THEN a
    ELSE (IF a % 2 = 1 \/ b % 2 = 1 THEN 1 ELSE 0) + 2 * BitOr(a \div 2, b \div 2)

RECURSIVE BitAnd(_, _)
BitAnd(a, b) ==
    IF a = 0 \/ b = 0 THEN 0
    ELSE (IF a % 2 = 1 /\ b % 2 = 1 THEN 1 ELSE 0) + 2 * BitAnd(a \div 2, b \div 2)

RECURSIVE Pow2(_)
Pow2(n) == IF n = 0 THEN 1 ELSE 2 * Pow2(n - 1)

ShiftLeft(a, n) == a * Pow2(n)

(***************************************************************************)
(* I/O events and printed lines.                                           *)
(***************************************************************************)
WriteEv(ep, bytes, ok) == [op |-> "write", ep |-> ep, data |-> bytes, n |-> Len(bytes), ok |-> ok]
ReadEv(ep, size, bytes, ok) == [op |-> "read", ep |-> ep, data |-> bytes, n |-> size, ok |-> ok]
SleepEv(ms) == [op |-> "sleep", ep |-> 0, data |-> <<>>, n |-> ms, ok |-> TRUE]
Line(text) == [text |-> text, args |-> <<>>]
ErrorLine(msg) == [text |-> "Error: ", args |-> <<msg>>]

(***************************************************************************)
(* Python's unbounded non-negative integers: little-endian sequences of    *)
(* base-65536 limbs (high zero limbs allowed).                             *)
(***************************************************************************)
LimbBase == Pow2(16)

RECURSIVE FromInt(_)
FromInt(n) == IF n < LimbBase THEN <<n>> ELSE <<n % LimbBase>> \o FromInt(n \div LimbBase)

LimbAt(x, k) == IF k <= Len(x) THEN x[k] ELSE 0

\* x without its high zero limbs: the canonical form of the number
RECURSIVE Canon(_)
Canon(x) ==
    IF Len(x) = 0 THEN <<>>
    ELSE IF x[Len(x)] = 0 THEN Canon(SubSeq(x, 1, Len(x) - 1))
    ELSE x

\* x * m for a small machine integer m (m < 2^15), schoolbook with carry
RECURSIVE MulCarry(_, _, _, _)
MulCarry(x, m, k, carry) ==
    IF k > Len(x)
    THEN IF carry = 0 THEN <<>> ELSE <<carry % LimbBase>> \o MulCarry(x, m, k, carry \div LimbBase)
    ELSE LET t == x[k] * m + carry
         IN  <<t % LimbBase>> \o MulCarry(x, m, k + 1, t \div LimbBase)

BigMul(x, m) == MulCarry(x, m, 1, 0)

\* x >> n
BigShiftRight(x, n) ==
    LET q == n \div 16
        r == n % 16
    IN  [k \in 1..(IF Len(x) > q THEN Len(x) - q ELSE 0) |->
            (LimbAt(x, k + q) \div Pow2(r)) + (LimbAt(x, k + q + 1) % Pow2(r)) * Pow2(16 - r)]

\* x & mask for a mask below 2^16: only the low limb of x takes part
BigAndSmall(x, mask) == BitAnd(LimbAt(x, 1), mask)

(***************************************************************************)
(* set_integration_time: the command it builds (lines 30-35).              *)
(***************************************************************************)
\* the four bytes of the time sent high byte first
IntegrationCommand_HighFirst(time_ms) ==
    LET time_us == BigMul(time_ms, US_PER_MS)
    IN  <<CMD_INTEGRATION>> \o
        << BigAndSmall(BigShiftRight(time_us, 24), 255),
           BigAndSmall(BigShiftRight(time_us, 16), 255),
           BigAndSmall(BigShiftRight(time_us, 8), 255),
           BigAndSmall(time_us, 255) >>

IntegrationCommand(time_ms) ==
    LET time_us == BigMul(time_ms, US_PER_MS)
    IN  <<CMD_INTEGRATION>> \o
        << BigAndSmall(time_us, 255),
           BigAndSmall(BigShiftRight(time_us, 8), 255),
           BigAndSmall(BigShiftRight(time_us, 16), 255),
           BigAndSmall(BigShiftRight(time_us, 24), 255) >>

(***************************************************************************)
(* request_spectrum: bytes to pixels (lines 54-58).                        *)
(***************************************************************************)
\* Python's range(lo, hi, step) as a sequence
PyRange(lo, hi, step) ==
    [k \in 1..(IF hi > lo THEN (hi - lo + step - 1) \div step ELSE 0) |-> lo + (k - 1) * step]

\* the two bytes of a pixel taken high byte first
DecodePixels_HighFirst(bytes) ==
    LET n == Len(bytes)
        taken == SelectSeq(PyRange(0, n, 2), LAMBDA j : j + 1 < n)
    IN  [p \in 1..Len(taken) |->
            BitOr(bytes[taken[p] + 2], ShiftLeft(bytes[taken[p] + 1], 8))]

DecodePixels(bytes) ==
    LET n == Len(bytes)
        taken == SelectSeq(PyRange(0, n, 2), LAMBDA j : j + 1 < n)
    IN  [p \in 1..Len(taken) |->
            BitOr(bytes[taken[p] + 1], ShiftLeft(bytes[taken[p] + 2], 8))]

(***************************************************************************)
(* main: spectrum[20:2048], Python slicing with non-negative indices.      *)
(***************************************************************************)
\* the slice taken from index lo - 1
PySlice_OffByOne(s, lo, hi) ==
    LET start == Min(lo, Len(s))
        stop == Min(hi, Len(s))
    IN  IF start >= stop THEN <<>> ELSE SubSeq(s, start, stop)

PySlice(s, lo, hi) ==
    LET start == Min(lo, Len(s))
        stop == Min(hi, Len(s))
    IN  IF start >= stop THEN <<>> ELSE SubSeq(s, start + 1, stop)

(***************************************************************************)
(* Exact fractions, reduced, denominator positive.                         *)
(***************************************************************************)
Abs(a) == IF a < 0 THEN -a ELSE a

RECURSIVE Gcd(_, _)
Gcd(a, b) == IF b = 0 THEN a ELSE Gcd(b, a % b)

Frac(n, d) ==
    LET g == Gcd(Abs(n), Abs(d))
        s == IF d < 0 THEN -1 ELSE 1
    IN  [num |-> (s * n) \div g, den |-> (s * d) \div g]

FracOfInt(n) == [num |-> n, den |-> 1]
FracAdd(a, b) == Frac(a.num * b.den + b.num * a.den, a.den * b.den)
FracMulInt(k, a) == Frac(k * a.num, a.den)

(***************************************************************************)
(* numpy.linspace(start, stop, num) with endpoint=True, as numpy computes  *)
(* it: step = (stop - start) / (num - 1), y = arange(num) * step + start,  *)
(* and for num > 1 the last sample is set to stop.  For num = 1 the step   *)
(* is undefined and y = arange(1) * (stop - start) + start.                *)
(***************************************************************************)
\* the samples spaced as if the end point were excluded
Linspace_NoEndpoint(start, stop, num) ==
    LET delta == stop - start
    IN  [k \in 1..num |-> FracAdd(FracMulInt(k - 1, Frac(delta, num)), FracOfInt(start))]

Linspace(start, stop, num) ==
    LET div == num - 1
        delta == stop - start
    IN  [k \in 1..num |->
            IF div > 0
            THEN IF k = num THEN FracOfInt(stop)
                 ELSE FracAdd(FracMulInt(k - 1, Frac(delta, div)), FracOfInt(start))
            ELSE FracAdd(FracMulInt(k - 1, FracOfInt(delta)), FracOfInt(start))]

\* zip(a, b): pairs up to the shorter length
Zip(a, b) == [k \in 1..Min(Len(a), Len(b)) |-> <<a[k], b[k]>>]

(***************************************************************************)
(* interpret_spectrum (lines 75-83).                                       *)
(***************************************************************************)
interpret_spectrum(pixels, start_wavelength, end_wavelength) ==
    LET num_pixels == Len(pixels)
        wavelengths == Linspace(start_wavelength, end_wavelength, num_pixels)
    IN  Zip(wavelengths, pixels)

(***************************************************************************)
(* print_spectrum (lines 92-95): header, rule, one row per pair.           *)
(***************************************************************************)
HeaderLine == Line("Wavelength (nm)     Intensity ")
RuleLine == Line("------------------------------")
RowLine(pair) == [text |-> "row", args |-> pair]

print_spectrum(spectrum_data) ==
    <<HeaderLine, RuleLine>> \o [k \in 1..Len(spectrum_data) |-> RowLine(spectrum_data[k])]

(***************************************************************************)
(* The device's answers to read(0x82, 512): a packet of at most 512 bytes  *)
(* (a bulk transfer ends on a short packet), or an error.  Packet k of a   *)
(* run carries bytes that depend on k and on the position in the packet.   *)
(***************************************************************************)
PacketByte(k, j) == (29 * k + 7 * j) % 256
Packet(k, len) == [j \in 1..len |-> PacketByte(k, j)]

ShortReads == Cardinality({k \in 1..Len(io) : io[k].op = "read" /\ io[k].ok /\ Len(io[k].data) < io[k].n})

\* the exception dropped where it is raised
Raise_Swallowed(msg) == /\ err' = err
                        /\ pc' = "done"

Raise(msg) == /\ err' = msg
              /\ pc' = "except"

(***************************************************************************)
(* connect_spectrometer (lines 7-21), called from main (lines 122-125).    *)
(***************************************************************************)
Find ==
    /\ pc = "find"
    /\ \E found \in {"none", "kernel", "free"} :
          /\ device' = found
          /\ IF found = "none"
             THEN Raise(NotFoundMsg)
             ELSE /\ pc' = "driver"
                  /\ err' = err
    /\ out' = Append(out, Line("Starting spectrometer connection..."))
    /\ UNCHANGED <<io, i, data, spectrum, active_pixels, plotted, fn_in, fn_out>>

\* lines 15-16: is_kernel_driver_active, and detach_kernel_driver when it is
\* active, either of which may raise; afterwards no kernel driver holds the
\* interface
DetachDriver ==
    /\ pc = "driver"
    /\ \/ /\ device' = "free"
          /\ pc' = "config"
          /\ err' = err
       \/ /\ \E m \in UsbErrors : Raise(m)
          /\ device' = device
    /\ UNCHANGED <<io, out, i, data, spectrum, active_pixels, plotted, fn_in, fn_out>>

SetConfiguration ==
    /\ pc = "config"
    /\ \/ /\ device' = "configured"
          /\ pc' = "init_write"
          /\ err' = err
          /\ out' = Append(out, Line("conneted"))
       \/ /\ \E m \in UsbErrors : Raise(m)
          /\ UNCHANGED <<device, out>>
    /\ UNCHANGED <<io, i, data, spectrum, active_pixels, plotted, fn_in, fn_out>>

(***************************************************************************)
(* A command write followed by its fixed delay; the write may raise.       *)
(***************************************************************************)
\* the command sent to the data endpoint
Write_WrongEndpoint(at, command, next) ==
    /\ pc = at
    /\ \/ /\ io' = Append(io, WriteEv(EP_IN, command, TRUE))
          /\ pc' = next
          /\ err' = err
       \/ /\ io' = Append(io, WriteEv(EP_IN, command, FALSE))
          /\ \E m \in UsbErrors : Raise(m)
    /\ UNCHANGED <<device, out, i, data, spectrum, active_pixels, plotted, fn_in, fn_out>>

Write(at, command, next) ==
    /\ pc = at
    /\ \/ /\ io' = Append(io, WriteEv(EP_OUT, command, TRUE))
          /\ pc' = next
          /\ err' = err
       \/ /\ io' = Append(io, WriteEv(EP_OUT, command, FALSE))
          /\ \E m \in UsbErrors : Raise(m)
    /\ UNCHANGED <<device, out, i, data, spectrum, active_pixels, plotted, fn_in, fn_out>>

Sleep(at, next, said) ==
    /\ pc = at
    /\ io' = Append(io, SleepEv(SLEEP_MS))
    /\ pc' = next
    /\ out' = out \o said
    /\ UNCHANGED <<device, i, data, spectrum, active_pixels, err, plotted, fn_in, fn_out>>

\* initialize_spectrometer (lines 23-26), main line 128
InitializeWrite == Write("init_write", <<CMD_INIT>>, "init_sleep")
InitializeSleep == Sleep("init_sleep", "time_write", <<Line("initialized")>>)

\* set_integration_time (lines 28-37), main lines 131-132
SetIntegrationTimeWrite ==
    Write("time_write", IntegrationCommand(FromInt(INTEGRATION_MS)), "time_sleep")
SetIntegrationTimeSleep == Sleep("time_sleep", "request_write", <<Line("integration time set")>>)

\* request_spectrum (lines 41-45)
RequestWrite == Write("request_write", <<CMD_REQUEST>>, "request_sleep")
\* the read loop entered right after the request, without the delay
RequestSleep_None ==
    /\ pc = "request_sleep"
    /\ pc' = "read"
    /\ UNCHANGED <<device, io, out, i, data, spectrum, active_pixels, err, plotted, fn_in, fn_out>>

RequestSleep == Sleep("request_sleep", "read", <<>>)

(***************************************************************************)
(* request_spectrum: one iteration of the read loop (lines 46-51).         *)
(***************************************************************************)
ReadLens == {PACKET_SIZE} \cup (IF ShortReads < MaxShort THEN ShortLens ELSE {})

\* a failed read is skipped and the loop goes on
ReadPacket_Continue ==
    /\ pc = "read"
    /\ i < NUM_PACKETS
    /\ \/ \E len \in ReadLens :
             LET packet == Packet(i + 1, len)
             IN  /\ io' = Append(io, ReadEv(EP_IN, PACKET_SIZE, packet, TRUE))
                 /\ data' = data \o packet
       \/ /\ io' = Append(io, ReadEv(EP_IN, PACKET_SIZE, <<>>, FALSE))
          /\ data' = data
    /\ i' = i + 1
    /\ pc' = "read"
    /\ UNCHANGED <<device, out, spectrum, active_pixels, err, plotted, fn_in, fn_out>>

\* each packet replaces the buffer instead of extending it
ReadPacket_Overwrite ==
    /\ pc = "read"
    /\ i < NUM_PACKETS
    /\ \/ \E len \in ReadLens :
             LET packet == Packet(i + 1, len)
             IN  /\ io' = Append(io, ReadEv(EP_IN, PACKET_SIZE, packet, TRUE))
                 /\ data' = packet
                 /\ i' = i + 1
                 /\ pc' = "read"
       \/ /\ io' = Append(io, ReadEv(EP_IN, PACKET_SIZE, <<>>, FALSE))
          /\ pc' = "decode"
          /\ UNCHANGED <<i, data>>
    /\ UNCHANGED <<device, out, spectrum, active_pixels, err, plotted, fn_in, fn_out>>

ReadPacket ==
    /\ pc = "read"
    /\ i < NUM_PACKETS
    /\ \/ \E len \in ReadLens :
             LET packet == Packet(i + 1, len)
             IN  /\ io' = Append(io, ReadEv(EP_IN, PACKET_SIZE, packet, TRUE))
                 /\ data' = data \o packet
                 /\ i' = i + 1
                 /\ pc' = "read"
       \/ /\ io' = Append(io, ReadEv(EP_IN, PACKET_SIZE, <<>>, FALSE))
          /\ pc' = "decode"
          /\ UNCHANGED <<i, data>>
    /\ UNCHANGED <<device, out, spectrum, active_pixels, err, plotted, fn_in, fn_out>>

\* the loop is exhausted after NUM_PACKETS iterations
ReadDone ==
    /\ pc = "read"
    /\ i >= NUM_PACKETS
    /\ pc' = "decode"
    /\ UNCHANGED <<device, io, out, i, data, spectrum, active_pixels, err, plotted, fn_in, fn_out>>

(***************************************************************************)
(* request_spectrum lines 54-60 and main lines 134-135.                    *)
(***************************************************************************)
Decode ==
    /\ pc = "decode"
    /\ spectrum' = DecodePixels(data)
    /\ out' = Append(out, Line("spectrum acquired"))
    /\ pc' = "interpret"
    /\ UNCHANGED <<device, io, i, data, active_pixels, err, plotted, fn_in, fn_out>>

(***************************************************************************)
(* main lines 137-141.                                                     *)
(***************************************************************************)
Interpret ==
    /\ pc = "interpret"
    /\ active_pixels' = PySlice(spectrum, ACTIVE_FROM, ACTIVE_TO)
    /\ spectrum' = interpret_spectrum(active_pixels', START_WAVELENGTH, END_WAVELENGTH)
    /\ out' = Append(out, Line("spectrum interpreted"))
    /\ pc' = "print"
    /\ UNCHANGED <<device, io, i, data, err, plotted, fn_in, fn_out>>

\* main line 143
PrintSpectrum ==
    /\ pc = "print"
    /\ out' = out \o print_spectrum(spectrum)
    /\ pc' = "plot"
    /\ UNCHANGED <<device, io, i, data, spectrum, active_pixels, err, plotted, fn_in, fn_out>>

(***************************************************************************)
(* plot_spectrum (lines 107-115), main line 148: zip over the unpacked     *)
(* pairs yields one tuple per column, so none for an empty list; unpacking *)
(* that into two names then raises ValueError.                             *)
(***************************************************************************)
\* an empty list unpacked as if it had its two columns
Columns_Always(spectrum_data) == IF Len(spectrum_data) = 0 THEN 2 ELSE 2

Columns(spectrum_data) == IF Len(spectrum_data) = 0 THEN 0 ELSE 2

PlotSpectrum ==
    /\ pc = "plot"
    /\ IF Columns(spectrum) = 2
       THEN /\ plotted' = TRUE
            /\ pc' = "done"
            /\ err' = err
       ELSE /\ Raise(UnpackMsg)
            /\ plotted' = plotted
    /\ UNCHANGED <<device, io, out, i, data, spectrum, active_pixels, fn_in, fn_out>>

\* main lines 159-160
Except ==
    /\ pc = "except"
    /\ out' = Append(out, ErrorLine(err))
    /\ pc' = "done"
    /\ UNCHANGED <<device, io, i, data, spectrum, active_pixels, err, plotted, fn_in, fn_out>>

Init ==
    /\ pc = "find"
    /\ device = "unknown"
    /\ io = <<>>
    /\ out = <<>>
    /\ i = 0
    /\ data = <<>>
    /\ spectrum = <<>>
    /\ active_pixels = <<>>
    /\ err = NoError
    /\ plotted = FALSE
    /\ fn_in = <<>>
    /\ fn_out = <<>>

Next ==
    \/ Find
    \/ DetachDriver
    \/ SetConfiguration
    \/ InitializeWrite
    \/ InitializeSleep
    \/ SetIntegrationTimeWrite
    \/ SetIntegrationTimeSleep
    \/ RequestWrite
    \/ RequestSleep
    \/ ReadPacket
    \/ ReadDone
    \/ Decode
    \/ Interpret
    \/ PrintSpectrum
    \/ PlotSpectrum
    \/ Except

Spec == Init /\ [][Next]_vars

(***************************************************************************)
(* The decoder applied on its own to every short buffer over a few byte    *)
(* values (lines 54-60).                                                   *)
(***************************************************************************)
ByteVals == {0, 1, 18, 52, 255}
Buffers == UNION {[1..n -> ByteVals] : n \in 0..MaxBuf}

InitDecode ==
    /\ pc = "decode_fn"
    /\ fn_in \in Buffers
    /\ fn_out = <<>>
    /\ device = "configured" /\ io = <<>> /\ out = <<>> /\ i = 0 /\ data = <<>>
    /\ spectrum = <<>> /\ active_pixels = <<>> /\ err = NoError /\ plotted = FALSE

ApplyDecode ==
    /\ pc = "decode_fn"
    /\ fn_out' = DecodePixels(fn_in)
    /\ pc' = "decode_fn_done"
    /\ UNCHANGED <<device, io, out, i, data, spectrum, active_pixels, err, plotted, fn_in>>

SpecDecode == InitDecode /\ [][ApplyDecode]_vars

(***************************************************************************)
(* interpret_spectrum applied on its own (lines 62-83).                    *)
(***************************************************************************)
IntensityVals == {10, 20, 30}
WavelengthVals == {0, 400, 700}
IntensityLists == UNION {[1..n -> IntensityVals] : n \in 0..MaxN}

InitInterpret ==
    /\ pc = "interpret_fn"
    /\ fn_in \in [pixels : IntensityLists, start : WavelengthVals, stop : WavelengthVals]
    /\ fn_out = <<>>
    /\ device = "configured" /\ io = <<>> /\ out = <<>> /\ i = 0 /\ data = <<>>
    /\ spectrum = <<>> /\ active_pixels = <<>> /\ err = NoError /\ plotted = FALSE

ApplyInterpret ==
    /\ pc = "interpret_fn"
    /\ fn_out' = interpret_spectrum(fn_in.pixels, fn_in.start, fn_in.stop)
    /\ pc' = "interpret_fn_done"
    /\ UNCHANGED <<device, io, out, i, data, spectrum, active_pixels, err, plotted, fn_in>>

SpecInterpret == InitInterpret /\ [][ApplyInterpret]_vars

(***************************************************************************)
(* set_integration_time applied on its own to time_ms given in limbs       *)
(* (lines 28-37).                                                          *)
(***************************************************************************)
LimbVals == {0, 1, 65, 100, 35127, 35128, 65535}

InitSetTime ==
    /\ pc = "time_fn_write"
    /\ fn_in \in [1..MaxLimbs -> LimbVals]
    /\ fn_out = <<>>
    /\ device = "configured" /\ io = <<>> /\ out = <<>> /\ i = 0 /\ data = <<>>
    /\ spectrum = <<>> /\ active_pixels = <<>> /\ err = NoError /\ plotted = FALSE

SetTimeWrite == Write("time_fn_write", IntegrationCommand(fn_in), "time_fn_sleep")
SetTimeSleep == Sleep("time_fn_sleep", "time_fn_done", <<>>)

SpecSetTime == InitSetTime /\ [][SetTimeWrite \/ SetTimeSleep]_vars

(***************************************************************************)
(* Views of the I/O log used by the properties.                            *)
(***************************************************************************)
IsWrite(e) == e.op = "write"
IsRead(e) == e.op = "read"
IsSleep(e) == e.op = "sleep"
Writes == SelectSeq(io, IsWrite)
Reads == SelectSeq(io, IsRead)
Sleeps == SelectSeq(io, IsSleep)
Commands == [k \in 1..Len(Writes) |-> Writes[k].data]
ExpectedCommands == << <<1>>, <<2, 160, 134, 1, 0>>, <<9>> >>
IsPrefix(a, b) == Len(a) <= Len(b) /\ \A k \in 1..Len(a) : a[k] = b[k]
NoWriteFailed == \A k \in 1..Len(Writes) : Writes[k].ok
NoReadFailed == \A k \in 1..Len(Reads) : Reads[k].ok
Requested(k) == IsWrite(io[k]) /\ io[k].data = <<9>> /\ io[k].ok

RECURSIVE ConcatOk(_, _)
ConcatOk(events, k) ==
    IF k = 0 THEN <<>>
    ELSE ConcatOk(events, k - 1) \o (IF events[k].ok THEN events[k].data ELSE <<>>)

\* the writes and reads are those of the protocol, in its order
ProtocolOrder ==
    /\ IsPrefix(Commands, ExpectedCommands)
    /\ \A k \in 1..Len(Writes) : Writes[k].ep = 1
    /\ \A k \in 1..Len(io) :
          IsRead(io[k]) => /\ io[k].ep = 130
                           /\ \E j \in 1..(k - 1) : Requested(j)

(***************************************************************************)
(* C1 as stated: in every finished run of main in which the device was     *)
(* found and no write failed, exactly the three commands [0x01],           *)
(* [0x02, b0..b3], [0x09] were written, once each and in this order, all   *)
(* to endpoint 0x01, and every read is on 0x82 and follows the [0x09]      *)
(* write.                                                                  *)
(***************************************************************************)
C1_AsStated ==
    /\ ProtocolOrder
    /\ (pc = "done" /\ device # "none" /\ NoWriteFailed) => Commands = ExpectedCommands

(***************************************************************************)
(* C1 amended: in every finished run of main in which connect_spectrometer *)
(* returned the device (found, driver check/detach and set_configuration   *)
(* did not fail) and no write failed, exactly the three commands were      *)
(* written, once each and in order; at every moment the writes are a       *)
(* prefix of that sequence, go to endpoint 0x01, and every read is on 0x82 *)
(* and follows the [0x09] write.                                           *)
(***************************************************************************)
C1_Theorem ==
    /\ ProtocolOrder
    /\ (pc = "done" /\ device = "configured" /\ NoWriteFailed) => Commands = ExpectedCommands

C1_Witness ==
    /\ pc = "done" /\ device = "configured" /\ NoWriteFailed
    /\ Len(Writes) = 3 /\ Len(Reads) = 8

(***************************************************************************)
(* C2: the read loop issues at most 8 reads, each of 512 bytes on endpoint *)
(* 0x82, and appends the bytes of each successful read in order; a failed  *)
(* read ends the loop at once (it is the last read, so it is not retried   *)
(* and no later read is issued), raises nothing out of the loop, and the   *)
(* decoder runs on exactly the bytes of the successful reads before it.    *)
(***************************************************************************)
C2_Theorem ==
    /\ Len(Reads) <= 8
    /\ \A k \in 1..Len(Reads) :
          /\ Reads[k].ep = 130 /\ Reads[k].n = 512
          /\ (k < Len(Reads) => Reads[k].ok)
    /\ data = ConcatOk(Reads, Len(Reads))
    /\ (Len(Reads) > 0 /\ ~Reads[Len(Reads)].ok) =>
          /\ pc # "read"
          /\ err \notin UsbErrors
          /\ (pc \in {"decode", "interpret", "print", "plot"} => err = NoError)
          /\ i = Len(Reads) - 1
    /\ pc = "interpret" =>
          /\ err = NoError
          /\ spectrum = DecodePixels(ConcatOk(Reads, Len(Reads)))

C2_Witness ==
    /\ pc = "interpret"
    /\ Len(Reads) = 4
    /\ Reads[1].ok /\ Reads[2].ok /\ Reads[3].ok /\ ~Reads[4].ok
    /\ data = Reads[1].data \o Reads[2].data \o Reads[3].data
    /\ Len(spectrum) = 768

(***************************************************************************)
(* C3: for a buffer of bytes the decoder returns floor(len/2) pixels, the  *)
(* i-th being data[2i] + 256 * data[2i+1] (low byte first), each in        *)
(* 0..65535; an unpaired last byte gives no pixel.  [0x34,0x12] decodes to *)
(* [0x1234] and [1,0,255,0,0,1] to [1,255,256].                            *)
(***************************************************************************)
C3_Theorem ==
    pc = "decode_fn_done" =>
        /\ Len(fn_out) = Len(fn_in) \div 2
        /\ \A p \in 1..Len(fn_out) :
              /\ fn_out[p] = fn_in[2 * p - 1] + 256 * fn_in[2 * p]
              /\ fn_out[p] \in 0..65535
        /\ (fn_in = <<52, 18>> => fn_out = <<4660>>)
        /\ (fn_in = <<1, 0, 255, 0, 0, 1>> => fn_out = <<1, 255, 256>>)

C3_Witness ==
    /\ pc = "decode_fn_done"
    /\ fn_in = <<1, 0, 255, 0, 0>>
    /\ fn_out = <<1, 255>>

(***************************************************************************)
(* C4: interpret_spectrum returns one pair per intensity, the i-th pair    *)
(* holding the i-th intensity; for N > 1 the i-th wavelength is            *)
(* start + i * (end - start) / (N - 1), so the first is start and the last *)
(* is end; for N = 1 it is start; for N = 0 the result is empty.           *)
(* [10, 20, 30] over 400..700 gives (400,10), (550,20), (700,30).          *)
(***************************************************************************)
C4_Theorem ==
    pc = "interpret_fn_done" =>
        LET N == Len(fn_in.pixels)
            start == fn_in.start
            stop == fn_in.stop
        IN  /\ Len(fn_out) = N
            /\ \A k \in 1..N :
                  /\ fn_out[k][2] = fn_in.pixels[k]
                  /\ fn_out[k][1].den > 0
                  /\ N > 1 => fn_out[k][1].num * (N - 1)
                                = fn_out[k][1].den * (start * (N - 1) + (k - 1) * (stop - start))
            /\ N >= 1 => fn_out[1][1] = [num |-> start, den |-> 1]
            /\ N > 1 => fn_out[N][1] = [num |-> stop, den |-> 1]
            /\ (fn_in = [pixels |-> <<10, 20, 30>>, start |-> 400, stop |-> 700]) =>
                  fn_out = << <<[num |-> 400, den |-> 1], 10>>,
                              <<[num |-> 550, den |-> 1], 20>>,
                              <<[num |-> 700, den |-> 1], 30>> >>

C4_Witness ==
    /\ pc = "interpret_fn_done"
    /\ fn_in = [pixels |-> <<10, 20, 30>>, start |-> 400, stop |-> 700]
    /\ fn_out[2] = <<[num |-> 550, den |-> 1], 20>>

(***************************************************************************)
(* C5: set_integration_time writes one packet of 5 bytes to endpoint 0x01: *)
(* 0x02, then the four low bytes of time_ms * 1000, low byte first; below  *)
(* 2^32 these bytes read back as time_ms * 1000 (100 ms gives              *)
(* 02 A0 86 01 00), and from 2^32 on nothing is raised and the packet      *)
(* carries time_ms * 1000 mod 2^32.                                        *)
(***************************************************************************)
TimeUs == BigMul(fn_in, 1000)
SmallTimeMs == \A k \in 2..Len(fn_in) : fn_in[k] <= (IF k = 2 THEN 1 ELSE 0)
TimeMsValue == fn_in[1] + (IF Len(fn_in) >= 2 THEN 65536 * fn_in[2] ELSE 0)

C5_Theorem ==
    /\ Len(Writes) <= 1
    /\ Len(Writes) = 1 =>
          LET w == Writes[1]
              b == w.data
          IN  /\ w.ep = 1
              /\ Len(b) = 5
              /\ b[1] = 2
              /\ \A k \in 2..5 : b[k] \in 0..255
              /\ b[2] + 256 * b[3] = LimbAt(TimeUs, 1)
              /\ b[4] + 256 * b[5] = LimbAt(TimeUs, 2)
              /\ Len(Canon(TimeUs)) <= 2 => Canon(<<b[2] + 256 * b[3], b[4] + 256 * b[5]>>) = Canon(TimeUs)
              /\ SmallTimeMs =>
                    b[2] + 256 * b[3] + 65536 * b[4] + 16777216 * b[5] = TimeMsValue * 1000
              /\ Canon(fn_in) = <<100>> => b = <<2, 160, 134, 1, 0>>
    /\ pc = "time_fn_done" => Len(Writes) = 1 /\ Writes[1].ok /\ err = NoError

C5_Witness ==
    /\ pc = "time_fn_done"
    /\ fn_in[1] = 35128 /\ fn_in[2] = 65
    /\ Len(Canon(TimeUs)) = 3
    /\ Writes[1].data = <<2, 192, 2, 0, 0>>

(***************************************************************************)
(* C6: a failure of the device search, of the driver check or detach, of   *)
(* set_configuration or of a command write goes straight to main's         *)
(* handler: no write or read follows it, one line 'Error: <message>' is    *)
(* printed, and main ends.  With no device no command is ever written and  *)
(* the message is 'USB2000+ spectrometer not found'.                       *)
(***************************************************************************)
ErrorLines == SelectSeq(out, LAMBDA l : l.text = "Error: ")

C6_State ==
    /\ err # NoError => pc \in {"except", "done"}
    /\ \A k \in 1..Len(io) :
          (IsWrite(io[k]) /\ ~io[k].ok) => (k = Len(io) /\ err \in UsbErrors)
    /\ (err # NoError /\ device # "configured") => io = <<>>
    /\ (pc = "done" /\ err # NoError) =>
          /\ Len(ErrorLines) = 1
          /\ out[Len(out)] = ErrorLine(err)
    /\ (pc = "done" /\ err = NoError) => Len(ErrorLines) = 0
    /\ device = "none" =>
          /\ io = <<>>
          /\ err = NotFoundMsg
          /\ pc = "done" => out = <<Line("Starting spectrometer connection..."),
                                    ErrorLine(NotFoundMsg)>>

C6_Theorem == [](C6_State) /\ [][err # NoError => (io' = io /\ err' = err)]_vars

C6_Witness ==
    /\ pc = "done"
    /\ Len(Writes) = 3 /\ ~Writes[3].ok
    /\ Len(Reads) = 0
    /\ out[Len(out)] = ErrorLine(err)

(***************************************************************************)
(* C7 as stated: whenever none of the 8 reads raises, the buffer holds     *)
(* 8 * 512 = 4096 bytes and 2048 pixels are returned; in every run at most *)
(* 2048 pixels are returned.                                               *)
(***************************************************************************)
AllReadsReturned == Len(Reads) = 8 /\ NoReadFailed

C7_AsStated ==
    pc = "interpret" =>
        /\ AllReadsReturned => (Len(data) = 4096 /\ Len(spectrum) = 2048)
        /\ Len(spectrum) <= 2048

(***************************************************************************)
(* C7 amended: whenever none of the 8 reads raises and each returns the    *)
(* full 512 bytes, the buffer holds 4096 bytes and 2048 pixels are         *)
(* returned; a read may return fewer bytes than asked, so the buffer is    *)
(* shorter whenever a read fails or falls short; in every run at most 4096 *)
(* bytes are held and at most 2048 pixels are returned.                    *)
(***************************************************************************)
AllReadsFull == \A k \in 1..Len(Reads) : Len(Reads[k].data) = 512

C7_Theorem ==
    /\ Len(data) <= 4096
    /\ pc = "interpret" =>
          /\ (AllReadsReturned /\ AllReadsFull) <=> (Len(data) = 4096 /\ Len(spectrum) = 2048)
          /\ Len(spectrum) <= 2048

C7_Witness ==
    /\ pc = "interpret"
    /\ AllReadsReturned /\ AllReadsFull
    /\ Len(data) = 4096 /\ Len(spectrum) = 2048

(***************************************************************************)
(* C8 as stated: a complete run of main sleeps exactly twice, 100 ms after *)
(* the initialize write and 100 ms after the set-integration-time write,   *)
(* and not between the [0x09] write and the first read.                    *)
(***************************************************************************)
CompleteRun == pc = "done" /\ Len(Writes) = 3 /\ NoWriteFailed

C8_AsStated ==
    CompleteRun =>
        /\ Len(Sleeps) = 2
        /\ \A k \in 1..Len(io) : Requested(k) => (k = Len(io) \/ ~IsSleep(io[k + 1]))

(***************************************************************************)
(* C8 amended: a complete run of main sleeps exactly three times, 100 ms   *)
(* immediately after each of the three command writes; in particular a     *)
(* 100 ms delay lies between the [0x09] write and the first read.          *)
(***************************************************************************)
C8_Theorem ==
    /\ \A k \in 1..Len(io) :
          /\ IsSleep(io[k]) => (io[k].n = 100 /\ k > 1 /\ IsWrite(io[k - 1]) /\ io[k - 1].ok)
          /\ (IsWrite(io[k]) /\ io[k].ok /\ k < Len(io)) => IsSleep(io[k + 1])
    /\ CompleteRun =>
          /\ Len(Sleeps) = 3
          /\ Len(io) >= 7
          /\ Requested(5) /\ IsSleep(io[6]) /\ IsRead(io[7])

C8_Witness ==
    /\ CompleteRun
    /\ Len(Sleeps) = 3
    /\ Len(Reads) = 8
    /\ plotted

(***************************************************************************)
(* C9: from P decoded pixels main selects pixels 20..P-1, max(0, P - 20)   *)
(* of them, in order, and interprets them without an error; the spectrum   *)
(* has 2028 entries only when P = 2048.                                    *)
(***************************************************************************)
C9_Theorem ==
    pc \in {"print", "plot"} =>
        LET pixels == DecodePixels(data)
            P == Len(pixels)
        IN  /\ P <= 2048
            /\ Len(active_pixels) = (IF P > 20 THEN P - 20 ELSE 0)
            /\ \A k \in 1..Len(active_pixels) : active_pixels[k] = pixels[20 + k]
            /\ Len(spectrum) = Len(active_pixels)
            /\ \A k \in 1..Len(spectrum) : spectrum[k][2] = active_pixels[k]
            /\ err = NoError
            /\ Len(spectrum) = 2028 <=> P = 2048

C9_Witness ==
    /\ pc = "print"
    /\ Len(data) = 42 + 512
    /\ Len(active_pixels) = 257
    /\ active_pixels[1] = data[41] + 256 * data[42]

(***************************************************************************)
(* C10: when the acquisition yields 20 pixels or fewer, main prints the    *)
(* table header with no rows, plot_spectrum fails on the empty spectrum,   *)
(* nothing is plotted, and the run ends with one 'Error: <message>' line   *)
(* although the read loop raised nothing.                                  *)
(***************************************************************************)
C10_Theorem ==
    (pc = "done" /\ Len(Writes) = 3 /\ NoWriteFailed) =>
        IF Len(DecodePixels(data)) <= 20
        THEN /\ ~plotted
             /\ err = UnpackMsg
             /\ out = << Line("Starting spectrometer connection..."),
                         Line("conneted"),
                         Line("initialized"),
                         Line("integration time set"),
                         Line("spectrum acquired"),
                         Line("spectrum interpreted"),
                         HeaderLine,
                         RuleLine,
                         ErrorLine(UnpackMsg) >>
        ELSE /\ plotted
             /\ err = NoError
             /\ Len(out) = 8 + Len(DecodePixels(data)) - 20

C10_Witness ==
    /\ pc = "done"
    /\ Len(Reads) = 1 /\ ~Reads[1].ok
    /\ data = <<>>
    /\ ~plotted
    /\ out[Len(out)] = ErrorLine(UnpackMsg)
    /\ out[Len(out) - 1] = RuleLine

====
